---- MODULE Spec2Model ----
(***************************************************************************)
(* Model of cve202344487.py: the target resolver                           *)
(* (extract_hostname_port_uri), the negotiation prober                     *)
(* (check_http2_support), the frame-level reset prober                     *)
(* (send_rst_stream_h2) and the per-line loop of __main__ that drives      *)
(* them and writes one report row per target.                              *)
(*                                                                         *)
(* Strings the program parses are sequences of one-character strings, so   *)
(* that URL parsing is computed character by character.  Strings the       *)
(* program only passes around (messages, verdicts) are TLA+ strings.       *)
(***************************************************************************)
EXTENDS Integers, Sequences, FiniteSets, TLC

(***************************************************************************)
(* Bounds of the model.                                                    *)
(***************************************************************************)
\* lines of the input file that are read in one run
MaxLines == 2
\* events decoded from one socket read
MaxEvents == 2

(***************************************************************************)
(* Python values of mixed type (str | int | tuple | None), tagged so that  *)
(* values of different types can be compared.                              *)
(***************************************************************************)
PyNone == [t |-> "none", s |-> <<>>, n |-> 0, m |-> 0]
PyStr(s) == [t |-> "str", s |-> s, n |-> 0, m |-> 0]
PyInt(n) == [t |-> "int", s |-> <<>>, n |-> n, m |-> 0]
PyPair(a, b) == [t |-> "pair", s |-> <<>>, n |-> a, m |-> b]

\* Python truthiness: `if x:` / `not x`
Truthy(v) ==
  CASE v.t = "none" -> FALSE
    [] v.t = "str" -> v.s # <<>>
    [] v.t = "int" -> v.n # 0
    [] OTHER -> TRUE

(***************************************************************************)
(* Characters.                                                             *)
(***************************************************************************)
Upper == {"H", "T", "P", "S"}
Alpha == {"h", "t", "p", "s", "f", "x", "u", "w"} \cup Upper
Digit == {"0", "1", "2", "3", "4", "5", "6", "7", "8", "9"}
scheme_chars == Alpha \cup Digit \cup {"+", "-", "."}
Whitespace == {" ", "\n"}

DigitVal(c) ==
  CASE c = "0" -> 0 [] c = "1" -> 1 [] c = "2" -> 2 [] c = "3" -> 3
    [] c = "4" -> 4 [] c = "5" -> 5 [] c = "6" -> 6 [] c = "7" -> 7
    [] c = "8" -> 8 [] c = "9" -> 9

LowerChar(c) ==
  CASE c = "H" -> "h" [] c = "T" -> "t" [] c = "P" -> "p" [] c = "S" -> "s"
    [] OTHER -> c

\* str.lower()
Lower(s) == [i \in 1..Len(s) |-> LowerChar(s[i])]

\* str.find for a set of characters, from position `from`: the first index
\* (1-based) holding one of them, 0 when there is none
FindFrom(s, cs, from) ==
  IF \E i \in from..Len(s) : s[i] \in cs
  THEN CHOOSE i \in from..Len(s) :
         s[i] \in cs /\ \A j \in from..(i - 1) : s[j] \notin cs
  ELSE 0

Find(s, c) == FindFrom(s, {c}, 1)

\* str.rfind: the last index holding c, 0 when there is none
RFind(s, c) ==
  IF \E i \in 1..Len(s) : s[i] = c
  THEN CHOOSE i \in 1..Len(s) :
         s[i] = c /\ \A j \in (i + 1)..Len(s) : s[j] # c
  ELSE 0

\* s[i:] with a 1-based first index
From(s, i) == SubSeq(s, i, Len(s))

\* int(s) of a string of decimal digits
RECURSIVE ParseInt(_)
ParseInt(s) ==
  IF s = <<>> THEN 0
  ELSE 10 * ParseInt(SubSeq(s, 1, Len(s) - 1)) + DigitVal(s[Len(s)])

\* str.strip(): leading and trailing whitespace removed
RECURSIVE LStrip(_)
LStrip(s) ==
  IF s # <<>> /\ s[1] \in Whitespace THEN LStrip(Tail(s)) ELSE s

RECURSIVE RStrip(_)
RStrip(s) ==
  IF s # <<>> /\ s[Len(s)] \in Whitespace
  THEN RStrip(SubSeq(s, 1, Len(s) - 1)) ELSE s

Strip(s) == LStrip(RStrip(s))

(***************************************************************************)
(* urllib.parse.urlparse as extract_hostname_port_uri uses it: the scheme, *)
(* the network location and the path of the split, and the hostname and    *)
(* port attributes computed from the network location.  A ValueError is    *)
(* the field raised = TRUE.                                                *)
(***************************************************************************)
\* the scheme prefix: url[:i].lower() when everything before the first ':'
\* is a scheme character and the first character is a letter
SplitScheme(url) ==
  LET i == Find(url, ":")
  IN IF i > 1 /\ url[1] \in Alpha /\ \A j \in 1..(i - 1) : url[j] \in scheme_chars
     THEN [scheme |-> Lower(SubSeq(url, 1, i - 1)), rest |-> From(url, i + 1)]
     ELSE [scheme |-> <<>>, rest |-> url]

\* the network location after a leading "//", up to the first of / ? #
SplitNetloc(rest) ==
  IF Len(rest) >= 2 /\ rest[1] = "/" /\ rest[2] = "/"
  THEN LET d == FindFrom(rest, {"/", "?", "#"}, 3)
           delim == IF d = 0 THEN Len(rest) + 1 ELSE d
       IN [netloc |-> SubSeq(rest, 3, delim - 1), rest |-> From(rest, delim)]
  ELSE [netloc |-> <<>>, rest |-> rest]

\* the path: what is left without the fragment and the query
SplitPath(rest) ==
  LET f == Find(rest, "#")
      nofrag == IF f = 0 THEN rest ELSE SubSeq(rest, 1, f - 1)
      q == Find(nofrag, "?")
  IN IF q = 0 THEN nofrag ELSE SubSeq(nofrag, 1, q - 1)

\* "Invalid IPv6 URL": one bracket without the other
BadBrackets(netloc) ==
  \/ Find(netloc, "[") # 0 /\ Find(netloc, "]") = 0
  \/ Find(netloc, "]") # 0 /\ Find(netloc, "[") = 0

\* _hostinfo: the text after the last '@', split at its first ':'
HostInfo(netloc) ==
  LET a == RFind(netloc, "@")
      hostinfo == From(netloc, a + 1)
      c == Find(hostinfo, ":")
  IN IF c = 0
     THEN [hostname |-> hostinfo, port |-> <<>>]
     ELSE [hostname |-> SubSeq(hostinfo, 1, c - 1), port |-> From(hostinfo, c + 1)]

\* the hostname attribute: None when empty, else lower-cased
Hostname(netloc) ==
  LET h == HostInfo(netloc).hostname
  IN IF h = <<>> THEN PyNone ELSE PyStr(Lower(h))

\* the port attribute raises ValueError on a port that is not all digits or
\* is out of 0..65535
PortRaises(netloc) ==
  LET p == HostInfo(netloc).port
  IN /\ p # <<>>
     /\ \/ \E i \in 1..Len(p) : p[i] \notin Digit
        \/ ParseInt(p) > 65535

\* the port attribute: None when absent or empty, else the integer
Port(netloc) ==
  LET p == HostInfo(netloc).port
  IN IF p = <<>> THEN PyNone ELSE PyInt(ParseInt(p))

urlparse(url) ==
  LET s == SplitScheme(url)
      n == SplitNetloc(s.rest)
  IN [raised |-> BadBrackets(n.netloc),
      scheme |-> s.scheme,
      netloc |-> n.netloc,
      path |-> SplitPath(n.rest)]

(***************************************************************************)
(* extract_hostname_port_uri                                               *)
(***************************************************************************)
Target(hostname, port, uri) == [hostname |-> hostname, port |-> port, uri |-> uri]

\* the invalid sentinel (-1, -1, "")
InvalidTarget == Target(PyInt(-1), PyInt(-1), <<>>)

\* uri = parsed_url.path, "/" when empty
NormalizeUri(path) == IF path = <<>> THEN <<"/">> ELSE path

\* variant: a URL without a known scheme is given the TLS port
ResolvePortNoPair(port, scheme) ==
  IF Truthy(port) THEN port
  ELSE IF scheme = <<"h", "t", "t", "p">> THEN PyInt(80)
  ELSE PyInt(443)

\* the port chosen once a hostname is known
ResolvePort(port, scheme) ==
  IF Truthy(port) THEN port
  ELSE IF scheme = <<"h", "t", "t", "p">> THEN PyInt(80)
  ELSE IF scheme = <<"h", "t", "t", "p", "s">> THEN PyInt(443)
  ELSE PyPair(80, 443)

\* the except branch: urlparse or the port attribute raised
ResolveRaises(url) ==
  LET parsed_url == urlparse(url)
  IN parsed_url.raised \/ PortRaises(parsed_url.netloc)

\* variant: the `if not hostname` test is missing
extract_without_host_test(url) ==
  IF ResolveRaises(url) THEN InvalidTarget
  ELSE LET parsed_url == urlparse(url)
       IN Target(Hostname(parsed_url.netloc),
                 ResolvePort(Port(parsed_url.netloc), parsed_url.scheme),
                 NormalizeUri(parsed_url.path))

extract_hostname_port_uri(url) ==
  IF ResolveRaises(url) THEN InvalidTarget
  ELSE LET parsed_url == urlparse(url)
           hostname == Hostname(parsed_url.netloc)
           port == Port(parsed_url.netloc)
           scheme == parsed_url.scheme
           uri == NormalizeUri(parsed_url.path)
       IN IF ~Truthy(hostname) THEN InvalidTarget
          ELSE Target(hostname, ResolvePort(port, scheme), uri)

(***************************************************************************)
(* check_http2_support: the value returned for one GET.  `raised` is any   *)
(* exception of the client; `version` is response.http_version.            *)
(***************************************************************************)
Versions == {"HTTP/2", "HTTP/1.1", "HTTP/1.0"}

Outcome(status, msg) == [status |-> status, msg |-> msg]

\* variant: any version that is not HTTP/1.1 counts as HTTP/2
check_http2_support_not11(raised, version) ==
  IF raised THEN Outcome(-1, "check_http2_support - e")
  ELSE IF version # "HTTP/1.1" THEN Outcome(1, "")
  ELSE Outcome(0, version)

check_http2_support(raised, version) ==
  IF raised THEN Outcome(-1, "check_http2_support - e")
  ELSE IF version = "HTTP/2" THEN Outcome(1, "")
  ELSE Outcome(0, version)

(***************************************************************************)
(* Inputs.                                                                 *)
(***************************************************************************)
http == <<"h", "t", "t", "p">>
https == <<"h", "t", "t", "p", "s">>

\* the URLs the resolver is applied to: scheme x "//" x host x port x path,
\* and some with user information, upper case or an unmatched bracket
SchemeParts ==
  {<<>>, http \o <<":">>, https \o <<":">>, <<"f", "t", "p", ":">>,
   <<"H", "T", "T", "P", ":">>}
SlashParts == {<<>>, <<"/", "/">>}
HostParts == {<<>>, <<"h">>}
PortParts ==
  {<<>>, <<":">>, <<":", "0">>, <<":", "8", "0">>, <<":", "4", "4", "3">>,
   <<":", "8", "0", "8", "0">>, <<":", "6", "5", "5", "3", "5">>,
   <<":", "6", "5", "5", "3", "6">>, <<":", "x">>}
PathParts == {<<>>, <<"/">>, <<"/", "x">>}

GridUrls ==
  {s \o sl \o h \o p \o pa :
     s \in SchemeParts, sl \in SlashParts, h \in HostParts, p \in PortParts,
     pa \in PathParts}

ExtraUrls ==
  {http \o <<":", "/", "/", "u", "@", "h", ":", "8", "0">>,
   https \o <<":", "/", "/", "u", "@", "H">>,
   http \o <<":", "/", "/", "[", "h">>,
   http \o <<":", "/", "/", "h", ":", "8", "0", ":", "9">>,
   http \o <<":", "/", "/", "h", "?", "x">>,
   https \o <<":", "/", "/", "h", "/", "x", "#", "f">>,
   <<"8", ":", "/", "/", "h">>,
   <<"/", "/", "h", ":", "0", "8", "0">>}

Urls == GridUrls \cup ExtraUrls

\* the lines of the input file the main loop is run on
Lines ==
  {<<"\n">>,
   <<" ", "\n">>,
   https \o <<":", "/", "/", "h", "\n">>,
   <<" ">> \o https \o <<":", "/", "/", "h", "/", "x", " ", "\n">>,
   http \o <<":", "/", "/", "h", ":", "8", "0", "8", "0", "/", "x", "\n">>,
   http \o <<":", "/", "/", "h", ":", "0", "\n">>,
   https \o <<":", "/", "/", "h", ":", "8", "0", "\n">>,
   http \o <<":", "/", "/", "h">>,
   <<"/", "/", "h", "\n">>,
   <<"h", "\n">>,
   http \o <<":", "/", "/", "h", ":", "x", "\n">>,
   <<"w", "s", "s", ":", "/", "/", "h", "\n">>}

\* args.proxy: absent, the empty string, or a proxy URL
ProxyArgs == {"None", "", "http://p:8"}

\* what `if proxy:` sees
ProxySet(p) == p # "None" /\ p # ""

(***************************************************************************)
(* HTTP/2 frames and events of the reset prober.                           *)
(***************************************************************************)
Frame(type, sid) == [type |-> type, sid |-> sid]
Preface == Frame("PREFACE+SETTINGS", 0)

\* an event decoded from a read: one without a stream_id attribute
\* (NoStreamId), or one on a stream
NoStreamId == -1
EventIds == {NoStreamId, 1, 2}

RECURSIVE SeqsUpTo(_, _)
SeqsUpTo(S, n) ==
  IF n = 0 THEN {<<>>}
  ELSE LET shorter == SeqsUpTo(S, n - 1)
       IN shorter \cup {Append(q, x) : q \in shorter, x \in S}

EventLists == SeqsUpTo(EventIds, MaxEvents)

\* the stream the orchestrator asks to reset (line 249)
StreamId == 1

\* what get_next_available_stream_id may hand back to line 163: the
\* "no id" value the code tests for, or the next unused client stream
AvailableIds == {0, StreamId + 2}

Unset == Outcome(99, "<unset>")

\* one GET of the client: it raised, or it gave a response of this version
Get(raised, version) == [done |-> TRUE, raised |-> raised, version |-> version]
NoGet == [done |-> FALSE, raised |-> FALSE, version |-> ""]
NoArgs == Target(PyNone, PyNone, <<>>)
NoConn ==
  [made |-> FALSE, tunnel |-> FALSE, tls |-> FALSE, peer |-> "none",
   tunnelTo |-> NoArgs]

VARIABLES
  proxy,         \* args.proxy
  lineNo,        \* lines of the input file read so far
  pc,            \* position of the main loop
  addr,          \* the stripped line being processed
  http2support,  \* (status, message) of check_http2_support for addr
  neg,           \* what the GET of check_http2_support did for addr
  target,        \* (hostname, port, uri) of extract_hostname_port_uri
  negCalls,      \* calls of check_http2_support for the current line
  rstCalls,      \* calls of send_rst_stream_h2 for the current line
  verdict,       \* 'Vulnerability Status' of the row written for the line
  nRows,         \* report rows written
  ppc,           \* position inside send_rst_stream_h2
  args,          \* (host, port) send_rst_stream_h2 was called with
  conn,          \* the HTTP(S)Connection built
  sockOpen,      \* the connection's socket is connected and not closed
  h2out,         \* frames the H2Connection holds for data_to_send()
  wire,          \* frames written to the socket, in order
  data,          \* "none" | "bytes" | "empty": the last recv
  events,        \* events of the last receive_data
  evIdx,         \* index of the for loop over events
  has_sent,
  available_id,
  resp,          \* the value send_rst_stream_h2 returned
  failedAt       \* the statement that raised in this call, "" when none did

vars ==
  <<proxy, lineNo, pc, addr, http2support, neg, target, negCalls, rstCalls, verdict,
    nRows, ppc, args, conn, sockOpen, h2out, wire, data, events, evIdx,
    has_sent, available_id, resp, failedAt>>

mainVars ==
  <<proxy, lineNo, pc, addr, http2support, neg, target, negCalls, rstCalls, verdict,
    nRows>>

\* the locals of one call of send_rst_stream_h2 before it starts
ProberIdle ==
  /\ ppc = "idle"
  /\ args = NoArgs
  /\ conn = NoConn
  /\ sockOpen = FALSE
  /\ h2out = <<>>
  /\ wire = <<>>
  /\ data = "none"
  /\ events = <<>>
  /\ evIdx = 0
  /\ has_sent = FALSE
  /\ available_id = -1
  /\ resp = Unset
  /\ failedAt = ""

\* an RST_STREAM frame was written to the socket
RstSent == {i \in 1..Len(wire) : wire[i].type = "RST_STREAM"}

Init ==
  /\ proxy \in ProxyArgs
  /\ lineNo = 0
  /\ pc = "loop"
  /\ addr = <<>>
  /\ http2support = Unset
  /\ neg = NoGet
  /\ target = InvalidTarget
  /\ negCalls = 0
  /\ rstCalls = 0
  /\ verdict = ""
  /\ nRows = 0
  /\ ProberIdle

(***************************************************************************)
(* __main__: the loop over the lines of the input file.                    *)
(***************************************************************************)
\* for line in infile: addr = line.strip(); an empty addr is skipped.  The
\* state kept for the previous line is dropped.
ReadLine ==
  /\ pc = "loop"
  /\ lineNo < MaxLines
  /\ \E line \in Lines :
       /\ addr' = Strip(line)
       /\ pc' = IF Strip(line) # <<>> THEN "negotiate" ELSE "loop"
  /\ lineNo' = lineNo + 1
  /\ http2support' = Unset
  /\ neg' = NoGet
  /\ target' = InvalidTarget
  /\ negCalls' = 0
  /\ rstCalls' = 0
  /\ verdict' = ""
  /\ ppc' = "idle"
  /\ args' = NoArgs
  /\ conn' = NoConn
  /\ sockOpen' = FALSE
  /\ h2out' = <<>>
  /\ wire' = <<>>
  /\ data' = "none"
  /\ events' = <<>>
  /\ evIdx' = 0
  /\ has_sent' = FALSE
  /\ available_id' = -1
  /\ resp' = Unset
  /\ failedAt' = ""
  /\ UNCHANGED <<proxy, nRows>>

\* the input file has no more lines
EndOfFile ==
  /\ pc = "loop"
  /\ pc' = "done"
  /\ UNCHANGED <<proxy, lineNo, addr, http2support, neg, target, negCalls, rstCalls,
                 verdict, nRows, ppc, args, conn, sockOpen, h2out, wire, data,
                 events, evIdx, has_sent, available_id, resp, failedAt>>

\* http2support, err = check_http2_support(addr, proxies)
Negotiate ==
  /\ pc = "negotiate"
  /\ \E raised \in BOOLEAN, version \in Versions :
       /\ neg' = Get(raised, IF raised THEN "" ELSE version)
       /\ http2support' = check_http2_support(raised, version)
  /\ negCalls' = negCalls + 1
  /\ pc' = "resolve"
  /\ UNCHANGED <<proxy, lineNo, addr, target, rstCalls, verdict, nRows, ppc,
                 args, conn, sockOpen, h2out, wire, data, events, evIdx,
                 has_sent, available_id, resp, failedAt>>

\* hostname, port, uri = extract_hostname_port_uri(addr)
Resolve ==
  /\ pc = "resolve"
  /\ target' = extract_hostname_port_uri(addr)
  /\ pc' = "gate"
  /\ UNCHANGED <<proxy, lineNo, addr, http2support, neg, negCalls, rstCalls, verdict,
                 nRows, ppc, args, conn, sockOpen, h2out, wire, data, events,
                 evIdx, has_sent, available_id, resp, failedAt>>

\* variant: a target whose probe ended in an error is tried again
AfterRowRetry(status) == IF status = -1 THEN "negotiate" ELSE "loop"

\* where the loop goes once the row of a target is written, whatever the
\* status was: on to the next line
AfterRow(status) == "loop"

\* variant: `if http2support:`
RunsResetProbeTruthy(status) == status # 0

\* if http2support == 1
RunsResetProbe(status) == status = 1

\* the row written when the reset prober is not run
NegotiationVerdict(status) == IF status = 0 THEN "SAFE" ELSE "ERROR"

\* the row written for the value the reset prober returned; "" when no
\* branch of the if/elif chain matches
ResetVerdict(status) ==
  IF status = 1 THEN "VULNERABLE"
  ELSE IF status = -1 THEN "POSSIBLE"
  ELSE IF status = 0 THEN "LIKELY"
  ELSE ""

\* if http2support == 1: call send_rst_stream_h2(hostname, port, 1, uri,
\* proxy=args.proxy)
StartProbe ==
  /\ pc = "gate"
  /\ RunsResetProbe(http2support.status)
  /\ pc' = "probe"
  /\ ppc' = "ctx"
  /\ args' = target
  /\ rstCalls' = rstCalls + 1
  /\ UNCHANGED <<proxy, lineNo, addr, http2support, neg, target, negCalls, verdict,
                 nRows, conn, sockOpen, h2out, wire, data, events, evIdx,
                 has_sent, available_id, resp, failedAt>>

\* else: the SAFE or ERROR row
ReportNegotiation ==
  /\ pc = "gate"
  /\ ~RunsResetProbe(http2support.status)
  /\ verdict' = NegotiationVerdict(http2support.status)
  /\ nRows' = nRows + 1
  /\ pc' = AfterRow(http2support.status)
  /\ UNCHANGED <<proxy, lineNo, addr, http2support, neg, target, negCalls, rstCalls,
                 ppc, args, conn, sockOpen, h2out, wire, data, events, evIdx,
                 has_sent, available_id, resp, failedAt>>

\* resp, err2 = (the prober's value); the VULNERABLE, POSSIBLE or LIKELY row
ReportReset ==
  /\ pc = "probe"
  /\ ppc = "returned"
  /\ verdict' = ResetVerdict(resp.status)
  /\ nRows' = IF ResetVerdict(resp.status) # "" THEN nRows + 1 ELSE nRows
  /\ pc' = AfterRow(resp.status)
  /\ UNCHANGED <<proxy, lineNo, addr, http2support, neg, target, negCalls, rstCalls,
                 ppc, args, conn, sockOpen, h2out, wire, data, events, evIdx,
                 has_sent, available_id, resp, failedAt>>

(***************************************************************************)
(* send_rst_stream_h2, one statement (group) per action.  send(h2out) is   *)
(* conn.send(h2_conn.data_to_send()): the held frames go to the socket.    *)
(***************************************************************************)
\* variant: `if proxy is not None`
UsesTunnelNotNone(p) == p # "None"

\* if proxy and proxy != ""
UsesTunnel(p) == ProxySet(p) /\ p # ""

\* if port == 443
UsesTls(port) == port.t = "int" /\ port.n = 443

\* the connection object of lines 114-126: HTTPSConnection (tls) or
\* HTTPConnection, to the proxy with set_tunnel(host, port) or to the host
Connection(p, host, port) ==
  [made |-> TRUE,
   tunnel |-> UsesTunnel(p),
   tls |-> UsesTls(port),
   peer |-> IF UsesTunnel(p) THEN "proxy" ELSE "target",
   tunnelTo |-> IF UsesTunnel(p) THEN Target(host, port, <<>>) ELSE NoArgs]

\* HTTP(S)Connection(...) rejects a host that is not a string; with a proxy
\* the host given is the proxy's
MkConnOk(p, host) == UsesTunnel(p) \/ host.t = "str"

\* connect() reaches only a string host and an integer port
EndpointOk(host, port) == host.t = "str" /\ port.t = "int"

\* return (status, message)
Return(status, msg) ==
  /\ resp' = Outcome(status, msg)
  /\ ppc' = "returned"

\* the statements that call into ssl, http.client, the socket or h2 and can
\* raise; conn.close() is taken not to fail
RaisingSteps ==
  {"ctx", "mkconn", "connect", "initiate", "send_preface", "send_headers",
   "flush_headers", "recv", "receive_data", "trig_reset", "trig_flush",
   "after", "fallback", "fb1_flush", "fb_flush"}

\* variant: the try block opens after conn.connect()
InTryAfterConnect(step) == step \in RaisingSteps \ {"ctx", "mkconn", "connect"}

\* the statements the try block of lines 107-175 encloses: all of them
InTry(step) == step \in RaisingSteps \cup {"for", "close"}

\* ssl.create_default_context() and its two settings
SslContext ==
  /\ ppc = "ctx"
  /\ ppc' = "mkconn"
  /\ UNCHANGED <<args, conn, sockOpen, h2out, wire, data, events, evIdx,
                 has_sent, available_id, resp, failedAt>>
  /\ UNCHANGED mainVars

\* conn = HTTP(S)Connection(...), with set_tunnel(host, port) behind a proxy
MakeConnection ==
  /\ ppc = "mkconn"
  /\ MkConnOk(proxy, args.hostname)
  /\ conn' = Connection(proxy, args.hostname, args.port)
  /\ ppc' = "connect"
  /\ UNCHANGED <<args, sockOpen, h2out, wire, data, events, evIdx, has_sent,
                 available_id, resp, failedAt>>
  /\ UNCHANGED mainVars

\* conn.connect()
Connect ==
  /\ ppc = "connect"
  /\ EndpointOk(args.hostname, args.port)
  /\ sockOpen' = TRUE
  /\ ppc' = "initiate"
  /\ UNCHANGED <<args, conn, h2out, wire, data, events, evIdx, has_sent,
                 available_id, resp, failedAt>>
  /\ UNCHANGED mainVars

\* variant: h2_conn.initiate_connection() is not called
InitiateConnectionMissing ==
  /\ ppc = "initiate"
  /\ ppc' = "send_preface"
  /\ UNCHANGED <<args, conn, sockOpen, h2out, wire, data, events, evIdx,
                 has_sent, available_id, resp, failedAt>>
  /\ UNCHANGED mainVars

\* h2_conn = H2Connection(config); h2_conn.initiate_connection()
InitiateConnection ==
  /\ ppc = "initiate"
  /\ h2out' = Append(h2out, Preface)
  /\ ppc' = "send_preface"
  /\ UNCHANGED <<args, conn, sockOpen, wire, data, events, evIdx, has_sent,
                 available_id, resp, failedAt>>
  /\ UNCHANGED mainVars

\* conn.send(h2_conn.data_to_send())
SendPreface ==
  /\ ppc = "send_preface"
  /\ wire' = wire \o h2out
  /\ h2out' = <<>>
  /\ ppc' = "send_headers"
  /\ UNCHANGED <<args, conn, sockOpen, data, events, evIdx, has_sent,
                 available_id, resp, failedAt>>
  /\ UNCHANGED mainVars

\* h2_conn.send_headers(stream_id, headers)
SendHeaders ==
  /\ ppc = "send_headers"
  /\ h2out' = Append(h2out, Frame("HEADERS", StreamId))
  /\ ppc' = "flush_headers"
  /\ UNCHANGED <<args, conn, sockOpen, wire, data, events, evIdx, has_sent,
                 available_id, resp, failedAt>>
  /\ UNCHANGED mainVars

\* conn.send(h2_conn.data_to_send())
FlushHeaders ==
  /\ ppc = "flush_headers"
  /\ wire' = wire \o h2out
  /\ h2out' = <<>>
  /\ ppc' = "recv"
  /\ UNCHANGED <<args, conn, sockOpen, data, events, evIdx, has_sent,
                 available_id, resp, failedAt>>
  /\ UNCHANGED mainVars

\* variant: the empty read does not leave the loop
AfterRecvNoBreak(d) == "receive_data"

\* if not data: break
AfterRecv(d) == IF d = "empty" THEN "close" ELSE "receive_data"

\* data = conn.sock.recv(65535); if not data: break
Recv ==
  /\ ppc = "recv"
  /\ \E d \in {"bytes", "empty"} :
       /\ data' = d
       /\ ppc' = AfterRecv(d)
  /\ UNCHANGED <<args, conn, sockOpen, h2out, wire, events, evIdx, has_sent,
                 available_id, resp, failedAt>>
  /\ UNCHANGED mainVars

\* events = h2_conn.receive_data(data); has_sent = False
ReceiveData ==
  /\ ppc = "receive_data"
  /\ events' \in EventLists
  /\ has_sent' = FALSE
  /\ evIdx' = 1
  /\ ppc' = "for"
  /\ UNCHANGED <<args, conn, sockOpen, h2out, wire, data, available_id, resp, failedAt>>
  /\ UNCHANGED mainVars

\* hasattr(event, 'stream_id') and event.stream_id == stream_id
Triggers(event) == event # NoStreamId /\ event = StreamId

\* for event in events: one event looked at, or the loop is exhausted
ForEvent ==
  /\ ppc = "for"
  /\ IF evIdx > Len(events)
     THEN ppc' = "after" /\ evIdx' = evIdx
     ELSE IF Triggers(events[evIdx])
     THEN ppc' = "trig_reset" /\ evIdx' = evIdx
     ELSE ppc' = "for" /\ evIdx' = evIdx + 1
  /\ UNCHANGED <<args, conn, sockOpen, h2out, wire, data, events, has_sent,
                 available_id, resp, failedAt>>
  /\ UNCHANGED mainVars

\* h2_conn.reset_stream(event.stream_id)
TriggerReset ==
  /\ ppc = "trig_reset"
  /\ h2out' = Append(h2out, Frame("RST_STREAM", events[evIdx]))
  /\ ppc' = "trig_flush"
  /\ UNCHANGED <<args, conn, sockOpen, wire, data, events, evIdx, has_sent,
                 available_id, resp, failedAt>>
  /\ UNCHANGED mainVars

\* variant: the break after has_sent = True is missing
TriggerFlushNoBreak ==
  /\ ppc = "trig_flush"
  /\ wire' = wire \o h2out
  /\ h2out' = <<>>
  /\ has_sent' = TRUE
  /\ ppc' = "for"
  /\ evIdx' = evIdx + 1
  /\ UNCHANGED <<args, conn, sockOpen, data, events, available_id, resp, failedAt>>
  /\ UNCHANGED mainVars

\* conn.send(h2_conn.data_to_send()); has_sent = True; break
TriggerFlush ==
  /\ ppc = "trig_flush"
  /\ wire' = wire \o h2out
  /\ h2out' = <<>>
  /\ has_sent' = TRUE
  /\ ppc' = "after"
  /\ UNCHANGED <<args, conn, sockOpen, data, events, evIdx, available_id, resp, failedAt>>
  /\ UNCHANGED mainVars

\* variant: the `if has_sent: return` is missing, the fallback always runs
AfterEventsNoReturn ==
  /\ ppc = "after"
  /\ available_id' \in AvailableIds
  /\ ppc' = "fallback"
  /\ UNCHANGED <<args, conn, sockOpen, h2out, wire, data, events, evIdx,
                 has_sent, resp, failedAt>>
  /\ UNCHANGED mainVars

\* variant: without a trigger the loop reads again instead of falling back
AfterEventsReadAgain ==
  /\ ppc = "after"
  /\ IF has_sent THEN Return(1, "") ELSE ppc' = "recv" /\ resp' = resp
  /\ UNCHANGED <<args, conn, sockOpen, h2out, wire, data, events, evIdx,
                 has_sent, available_id, failedAt>>
  /\ UNCHANGED mainVars

\* if has_sent: return (1, ""); else: available_id =
\* h2_conn.get_next_available_stream_id()
AfterEvents ==
  /\ ppc = "after"
  /\ IF has_sent
     THEN Return(1, "") /\ available_id' = available_id
     ELSE /\ available_id' \in AvailableIds
          /\ ppc' = "fallback"
          /\ resp' = resp
  /\ UNCHANGED <<args, conn, sockOpen, h2out, wire, data, events, evIdx,
                 has_sent, failedAt>>
  /\ UNCHANGED mainVars

\* variant: the fallback resets stream 1 whatever id it was given
FallbackStreamAlways1(id) == 1

\* the stream the fallback resets: 1 when available_id == 0
FallbackStream(id) == IF id = 0 THEN 1 ELSE id

\* h2_conn.reset_stream(1) or h2_conn.reset_stream(available_id)
FallbackReset ==
  /\ ppc = "fallback"
  /\ h2out' = Append(h2out, Frame("RST_STREAM", FallbackStream(available_id)))
  /\ ppc' = IF available_id = 0 THEN "fb1_flush" ELSE "fb_flush"
  /\ UNCHANGED <<args, conn, sockOpen, wire, data, events, evIdx, has_sent,
                 available_id, resp, failedAt>>
  /\ UNCHANGED mainVars

\* the value returned after the reset of stream 1
NoIdOutcome ==
  Outcome(0, "Able to send RST_STREAM to stream 1 but could not find any available stream ids")

\* conn.send(h2_conn.data_to_send()); return (0, "Able to send ...")
FallbackFlushStream1 ==
  /\ ppc = "fb1_flush"
  /\ wire' = wire \o h2out
  /\ h2out' = <<>>
  /\ Return(NoIdOutcome.status, NoIdOutcome.msg)
  /\ UNCHANGED <<args, conn, sockOpen, data, events, evIdx, has_sent,
                 available_id, failedAt>>
  /\ UNCHANGED mainVars

\* conn.send(h2_conn.data_to_send()); return (1, "")
FallbackFlush ==
  /\ ppc = "fb_flush"
  /\ wire' = wire \o h2out
  /\ h2out' = <<>>
  /\ Return(1, "")
  /\ UNCHANGED <<args, conn, sockOpen, data, events, evIdx, has_sent,
                 available_id, failedAt>>
  /\ UNCHANGED mainVars

\* after the loop: conn.close(); return (0, "No response")
CloseAndReturn ==
  /\ ppc = "close"
  /\ sockOpen' = FALSE
  /\ Return(0, "No response")
  /\ UNCHANGED <<args, conn, h2out, wire, data, events, evIdx, has_sent,
                 available_id, failedAt>>
  /\ UNCHANGED mainVars

\* a statement raises: inside the try block the handler returns
\* (-1, f"send_rst_stream_h2 - {e}"); outside it the exception would leave
\* the call.  At "after" only get_next_available_stream_id can raise.
Except ==
  /\ ppc \in RaisingSteps
  /\ ~(ppc = "after" /\ has_sent)
  /\ failedAt' = ppc
  /\ IF InTry(ppc)
     THEN Return(-1, "send_rst_stream_h2 - e")
     ELSE ppc' = "uncaught" /\ resp' = resp
  /\ UNCHANGED <<args, conn, sockOpen, h2out, wire, data, events, evIdx,
                 has_sent, available_id>>
  /\ UNCHANGED mainVars

Prober ==
  \/ SslContext
  \/ MakeConnection
  \/ Connect
  \/ InitiateConnection
  \/ SendPreface
  \/ SendHeaders
  \/ FlushHeaders
  \/ Recv
  \/ ReceiveData
  \/ ForEvent
  \/ TriggerReset
  \/ TriggerFlush
  \/ AfterEvents
  \/ FallbackReset
  \/ FallbackFlushStream1
  \/ FallbackFlush
  \/ CloseAndReturn
  \/ Except

Next ==
  \/ ReadLine
  \/ EndOfFile
  \/ Negotiate
  \/ Resolve
  \/ StartProbe
  \/ ReportNegotiation
  \/ ReportReset
  \/ Prober

Spec == Init /\ [][Next]_vars

\* Every statement of send_rst_stream_h2 completes: the socket is given
\* timeout=5 (lines 117-126), so connect, send and recv return or raise,
\* and the other statements do not block.
SpecFair == Init /\ [][Next]_vars /\ WF_vars(Prober)

(***************************************************************************)
(* The resolver on its own: extract_hostname_port_uri applied to each URL  *)
(* of Urls.                                                                *)
(***************************************************************************)
InitResolver ==
  /\ proxy = "None"
  /\ lineNo = 1
  /\ pc = "resolve"
  /\ addr \in {Strip(u) : u \in Urls}
  /\ http2support = Outcome(-1, "check_http2_support - e")
  /\ neg = Get(TRUE, "")
  /\ target = InvalidTarget
  /\ negCalls = 1
  /\ rstCalls = 0
  /\ verdict = ""
  /\ nRows = 0
  /\ ProberIdle

NextResolver == Resolve

SpecResolver == InitResolver /\ [][NextResolver]_vars

(***************************************************************************)
(* Properties.                                                             *)
(***************************************************************************)
\* C1: send_rst_stream_h2 is started for a target only when
\* check_http2_support returned status 1 for that target; after status 0
\* or -1 no reset probe is started for it.
C1_ResetGatedByHttp2Confirmed ==
  (ppc # "idle" \/ rstCalls > 0) => http2support.status = 1

C1_Witness == ppc = "ctx" /\ rstCalls = 1 /\ http2support.status = 1

\* C2: whenever send_rst_stream_h2 has returned, on any exit path, the
\* socket it connected is closed.
C2_SocketClosedOnReturn == ppc = "returned" => ~sockOpen

\* C3: every call of send_rst_stream_h2 returns a status among 1, 0, -1,
\* and a statement that raises makes the call return -1 with a message: no
\* exception leaves the call.
C3_TypedOutcome ==
  /\ ppc # "uncaught"
  /\ ppc = "returned" => resp.status \in {1, 0, -1}
  /\ failedAt # "" => (ppc = "returned" /\ resp.status = -1 /\ resp.msg # "")

C3_Witness ==
  ppc = "returned" /\ failedAt = "connect" /\ resp.status = -1 /\ wire = <<>>

\* C4: when a non-empty read holds no event of the target stream and
\* get_next_available_stream_id gives 0, stream 1 is reset, the reset is
\* flushed, and the call returns status 1 with a non-empty message.
C4_NoIdFallbackAccepted ==
  (ppc = "returned" /\ failedAt = "" /\ data = "bytes" /\ ~has_sent
     /\ available_id = 0)
    => /\ wire[Len(wire)] = Frame("RST_STREAM", 1)
       /\ resp.status = 1
       /\ resp.msg # ""

\* C5: after a read of zero bytes the receive loop is left, no RST_STREAM
\* is sent, and the call returns (0, "No response").
C5_PeerClosedNoResponse ==
  data = "empty" =>
    /\ ppc \in {"close", "returned"}
    /\ RstSent = {}
    /\ ppc = "returned" => resp = Outcome(0, "No response")

C5_Witness ==
  /\ data = "empty"
  /\ ppc = "returned"
  /\ wire = <<Preface, Frame("HEADERS", StreamId)>>

\* C6: each of the five outcome classes has its own verdict: a reset put on
\* the wire is VULNERABLE, the peer closing before any reset is LIKELY, a
\* failed reset probe is POSSIBLE, a downgrade is SAFE and a failed
\* negotiation is ERROR.
C6_VerdictPerOutcomeClass ==
  verdict # "" =>
    verdict = CASE http2support.status = 0 -> "SAFE"
                [] http2support.status = -1 -> "ERROR"
                [] failedAt # "" -> "POSSIBLE"
                [] RstSent # {} -> "VULNERABLE"
                [] OTHER -> "LIKELY"

\* C7: for a non-empty line check_http2_support is called exactly once and
\* send_rst_stream_h2 at most once, whatever either returns.
C7_SingleAttempt ==
  /\ negCalls <= 1
  /\ rstCalls <= 1
  /\ (addr # <<>> /\ pc # "negotiate") => negCalls = 1

C7_Witness ==
  pc = "loop" /\ verdict = "POSSIBLE" /\ negCalls = 1 /\ rstCalls = 1

\* the URL has a host and parses without error
HasHost(url) ==
  /\ ~ResolveRaises(url)
  /\ Truthy(Hostname(urlparse(url).netloc))

\* the port written in the URL, None when there is none
ExplicitPort(url) == Port(urlparse(url).netloc)

\* C8: a URL with a host and an explicit port in 0..65535 resolves to that
\* port, whatever the scheme.
C8_ExplicitPortPreserved ==
  (pc = "gate" /\ HasHost(addr) /\ ExplicitPort(addr).t = "int")
    => target.port = ExplicitPort(addr)

\* C9: a URL without a host, or on which parsing or the port raises,
\* resolves to (-1, -1, ""), and every other result has a non-empty
\* hostname.
C9_InvalidSentinel ==
  pc = "gate" =>
    /\ ~HasHost(addr) => target = InvalidTarget
    /\ target # InvalidTarget =>
         (target.hostname.t = "str" /\ target.hostname.s # <<>>)

C9_Witness ==
  /\ pc = "gate"
  /\ addr = http \o <<":", "/", "/", ":", "8", "0", "/", "x">>
  /\ target = InvalidTarget

\* C10: a URL with a host and no explicit port resolves to port 80 for
\* http, 443 for https and the pair (80, 443) otherwise; an empty path
\* becomes "/" and any other path is kept.
C10_DefaultPortAndPath ==
  (pc = "gate" /\ HasHost(addr) /\ ExplicitPort(addr) = PyNone)
    => /\ target.port =
            (IF urlparse(addr).scheme = http THEN PyInt(80)
             ELSE IF urlparse(addr).scheme = https THEN PyInt(443)
             ELSE PyPair(80, 443))
       /\ target.uri =
            (IF urlparse(addr).path = <<>> THEN <<"/">> ELSE urlparse(addr).path)

C10_Witness ==
  /\ pc = "gate"
  /\ addr = <<"/", "/", "h">>
  /\ target = Target(PyStr(<<"h">>), PyPair(80, 443), <<"/">>)

\* C11: check_http2_support returns status 1 exactly when the GET gave a
\* response whose version is "HTTP/2"; any other version gives status 0
\* with that version as the message, and a GET that raised gives -1.
C11_NegotiationResult ==
  neg.done =>
    /\ http2support.status = 1 <=> (~neg.raised /\ neg.version = "HTTP/2")
    /\ (~neg.raised /\ neg.version # "HTTP/2") =>
         http2support = Outcome(0, neg.version)
    /\ neg.raised => (http2support.status = -1 /\ http2support.msg # "")

C11_Witness ==
  /\ neg = Get(FALSE, "HTTP/1.1")
  /\ http2support = Outcome(0, "HTTP/1.1")
  /\ pc = "resolve"

\* the statements up to and including conn.connect()
BeforeConnected == {"ctx", "mkconn", "connect"}

\* C12: nothing is written to the socket before conn.connect() has
\* completed; the preface with the initial SETTINGS precedes the HEADERS;
\* the HEADERS of the target stream precede every read; an RST_STREAM
\* follows the HEADERS and a non-empty read.
C12_FrameOrder ==
  /\ (ppc \in BeforeConnected \cup {"idle"} \/ failedAt \in BeforeConnected)
       => wire = <<>>
  /\ \A i \in 1..Len(wire) :
       /\ wire[i].type = "HEADERS" => \E j \in 1..(i - 1) : wire[j] = Preface
       /\ wire[i].type = "RST_STREAM" =>
            /\ \E j \in 1..(i - 1) : wire[j] = Frame("HEADERS", StreamId)
            /\ data = "bytes"
  /\ data # "none" => \E i \in 1..Len(wire) : wire[i] = Frame("HEADERS", StreamId)

C12_Witness ==
  /\ ppc = "returned"
  /\ wire = <<Preface, Frame("HEADERS", StreamId), Frame("RST_STREAM", StreamId)>>

\* the read decoded to an event of the target stream
HasTrigger == \E i \in 1..Len(events) : Triggers(events[i])

\* the index of the first such event
FirstTrigger ==
  CHOOSE i \in 1..Len(events) :
    Triggers(events[i]) /\ \A j \in 1..(i - 1) : ~Triggers(events[j])

\* C13: when the events of a read include one of the target stream and no
\* statement raises, the reset of that stream is requested and flushed at
\* the first such event, the later events are not looked at, no fallback
\* reset is made, and the call returns (1, "") after that single read.
C13_TriggerAtFirstEvent ==
  HasTrigger =>
    /\ ppc \notin {"fallback", "fb_flush", "fb1_flush", "recv", "close"}
    /\ evIdx <= FirstTrigger
    /\ available_id = -1
    /\ (ppc = "returned" /\ failedAt = "") =>
         /\ resp = Outcome(1, "")
         /\ evIdx = FirstTrigger
         /\ has_sent
         /\ wire = <<Preface, Frame("HEADERS", StreamId),
                     Frame("RST_STREAM", StreamId)>>

C13_Witness ==
  /\ ppc = "returned"
  /\ events = <<StreamId, StreamId>>
  /\ evIdx = 1
  /\ resp = Outcome(1, "")

RstPending == {i \in 1..Len(h2out) : h2out[i].type = "RST_STREAM"}

\* C15: one call requests and sends at most one RST_STREAM, whichever
\* branch it takes, and a call that returned status 1 has sent exactly
\* one.
C15_OneResetPerCall ==
  /\ Cardinality(RstSent) + Cardinality(RstPending) <= 1
  /\ (ppc = "returned" /\ resp.status = 1) =>
       (Cardinality(RstSent) = 1 /\ RstPending = {})

C15_Witness ==
  /\ ppc = "returned"
  /\ resp.status = 1
  /\ has_sent
  /\ Cardinality(RstSent) = 1

\* C16: when every statement of the call completes, a call of
\* send_rst_stream_h2 that has started returns, a call that has read
\* bytes returns, and after a read that gave bytes there is no further
\* read.
C16_ProbeReturns ==
  /\ (ppc = "ctx") ~> (ppc = "returned")
  /\ (data = "bytes") ~> (ppc = "returned")
  /\ [][data = "bytes" => ppc' # "recv"]_vars

C16_Witness ==
  /\ ppc = "returned"
  /\ data = "bytes"
  /\ resp.status = 1
  /\ Len(events) = MaxEvents

\* C17: the connection is built from the proxy and the port alone, before
\* any HTTP/2 frame exists: it tunnels to the target host and port through
\* the proxy exactly when a non-empty proxy is given, and it uses TLS
\* exactly when the port is 443.
C17_TransportConstruction ==
  /\ conn.made =>
       /\ conn.tunnel <=> proxy \notin {"None", ""}
       /\ conn.peer = (IF proxy \in {"None", ""} THEN "target" ELSE "proxy")
       /\ conn.tunnel => conn.tunnelTo = Target(args.hostname, args.port, <<>>)
       /\ conn.tls <=> args.port = PyInt(443)
  /\ (h2out # <<>> \/ wire # <<>>) => conn.made
  /\ (~conn.made /\ ppc \notin {"idle", "ctx", "mkconn"}) =>
       (failedAt \in {"ctx", "mkconn"} /\ wire = <<>>)

C17_Witness ==
  /\ conn.made
  /\ conn.tunnel
  /\ conn.tls
  /\ wire = <<Preface>>

\* C18: whenever the main loop calls the reset prober, the hostname is a
\* string and the port a single integer: never the invalid sentinel
\* (-1, -1), never the port pair (80, 443).
C18_ProberArgsValid ==
  ppc # "idle" =>
    /\ args.hostname.t = "str"
    /\ args.port.t = "int"
    /\ Target(args.hostname, args.port, <<>>) # Target(PyInt(-1), PyInt(-1), <<>>)

====
